---- MODULE Spec2Model ----
(***************************************************************************)
(* Supply funnel: webhook intake (handle-entry.ts), the Step Functions     *)
(* state machine declared in supply-funnel-stack.ts (second, current       *)
(* revision: supplyFunnelStateMachine) and the decision endpoints          *)
(* (handle-approval.ts, handle-waitlist.ts).                               *)
(*                                                                         *)
(* JavaScript values are tagged records [t, v]; an object is the sequence  *)
(* of its <<key, value>> pairs in property (insertion) order, which is the *)
(* order for..in, Object.entries and JSON.stringify enumerate for keys     *)
(* that are not integer-like (all keys of the model are such keys).        *)
(***************************************************************************)
EXTENDS Integers, Sequences, FiniteSets, Bags, TLC

VARIABLES
    execs,      \* Step Functions executions, in start order (index = instance id)
    table,      \* DynamoDB ImpactAssessmentTable: set of items, at most one per id
    bucket,     \* S3 bucket: set of object keys written
    mailbox,    \* task tokens delivered to the admin by e-mail
    inflight,   \* decision requests received and not yet answered
    resp,       \* the last HTTP response given by a handler
    subA, subB, \* two webhook payloads (columnValues) under comparison
    idA, idB,   \* their record ids, once computed
    rubric,     \* scoring key: DIMENSIONS and QUESTIONS
    loaded,     \* outcome of loading the scoring key
    answers,    \* the projectData calculateScore is given
    score,      \* the ScoreResult, once computed
    invocations,   \* calls of calculateScore so far
    payload,       \* a webhook payload (columnValues) given to transformData
    normalized,    \* the keyValues transformData returns for it, once computed
    dimensionResult,  \* a dimension percentage given to the report
    color             \* the colour the report draws it in, once drawn

vars == <<execs, table, bucket, mailbox, inflight, resp, subA, subB, idA, idB,
          rubric, loaded, answers, score, invocations, payload, normalized,
          dimensionResult, color>>

wfVars == <<execs, table, bucket, mailbox, inflight, resp>>
idVars == <<subA, subB, idA, idB>>
scoreVars == <<rubric, loaded, answers, score, invocations>>
normVars == <<payload, normalized>>
tierVars == <<dimensionResult, color>>
pureVars == <<idVars, scoreVars, normVars, tierVars>>

----------------------------------------------------------------------------
(* JavaScript values *)

Str(s)  == [t |-> "string", v |-> s]
Num(n)  == [t |-> "number", v |-> n]
Bool(b) == [t |-> "boolean", v |-> b]
Null    == [t |-> "null", v |-> "null"]
Undefined == [t |-> "undefined", v |-> "undefined"]
Obj(pairs) == [t |-> "object", v |-> pairs]

\* JavaScript ToBoolean.
Truthy(x) ==
    CASE x.t = "undefined" -> FALSE
      [] x.t = "null"      -> FALSE
      [] x.t = "boolean"   -> x.v
      [] x.t = "number"    -> x.v # 0
      [] x.t = "string"    -> x.v # ""
      [] OTHER             -> TRUE

\* Names every object inherits from Object.prototype (those the model uses).
ObjectPrototype == {"constructor"}

\* String(x) of a value used as a property key.
ToPropertyKey(x) ==
    IF x.t = "function" THEN "function Object() { [native code] }" ELSE x.v

Keys(o) == [i \in 1..Len(o.v) |-> o.v[i][1]]

HasKey(o, k) == o.t = "object" /\ \E i \in 1..Len(o.v) : o.v[i][1] = k

\* o[k]: undefined for an absent key and for a property of a primitive.
Get(o, k) ==
    IF HasKey(o, k)
    THEN o.v[CHOOSE i \in 1..Len(o.v) : o.v[i][1] = k][2]
    ELSE Undefined

\* o[k] = x: an existing key keeps its place, a new key is appended.
Put(o, k, x) ==
    IF HasKey(o, k)
    THEN Obj([i \in 1..Len(o.v) |-> IF o.v[i][1] = k THEN <<k, x>> ELSE o.v[i]])
    ELSE Obj(Append(o.v, <<k, x>>))

----------------------------------------------------------------------------
(* Field normalizer *)

\* MONDAY_FORM_FIELD_LOOKUP[key]: the entries of the table for the raw
\* identifiers the model uses, what the table inherits for an inherited name,
\* undefined for every other identifier.
MONDAY_FORM_FIELD_LOOKUP(key) ==
    CASE key = "text3"   -> Str("project-name")
      [] key = "text7"   -> Str("contact-name")
      [] key = "status1" -> Str("toc-design")
      [] key = "number"  -> Str("selected-outcome-scale")
      [] key \in ObjectPrototype -> [t |-> "function", v |-> key]
      [] OTHER           -> Undefined

PreferredKeys == <<"value", "text", "date", "countryName", "checked">>

RECURSIVE findNestedValue(_, _)
RECURSIVE findInSubKeys(_, _, _)

\* The second loop of findNestedValue, from property i on.
findInSubKeys(obj, keys, i) ==
    IF i > Len(obj.v) THEN Undefined
    ELSE LET sub == obj.v[i][2]
             found == IF sub.t # "null" THEN findNestedValue(sub, keys) ELSE Undefined
         IN  IF found.t # "undefined" THEN found
             ELSE findInSubKeys(obj, keys, i + 1)

\* A walk that hands a primitive back as the value it found.
findNestedValueOfPrimitive(obj, keys) ==
    IF ~Truthy(obj) THEN Undefined
    ELSE IF obj.t # "object" THEN obj
    ELSE LET hits == {j \in 1..Len(keys) : Get(obj, keys[j]).t # "undefined"}
         IN  IF hits # {}
             THEN Get(obj, keys[CHOOSE j \in hits : \A h \in hits : j <= h])
             ELSE findInSubKeys(obj, keys, 1)

\* A walk that takes the first wanted key in the object's own property order.
findNestedValueInPropertyOrder(obj, keys) ==
    IF ~Truthy(obj) \/ obj.t # "object" THEN Undefined
    ELSE LET wanted == {keys[j] : j \in 1..Len(keys)}
             hits == {i \in 1..Len(obj.v) : obj.v[i][1] \in wanted /\ obj.v[i][2].t # "undefined"}
         IN  IF hits # {}
             THEN obj.v[CHOOSE i \in hits : \A h \in hits : i <= h][2]
             ELSE findInSubKeys(obj, keys, 1)

findNestedValue(obj, keys) ==
    IF ~Truthy(obj) \/ obj.t # "object" THEN Undefined
    ELSE LET hits == {j \in 1..Len(keys) : Get(obj, keys[j]).t # "undefined"}
         IN  IF hits # {}
             THEN Get(obj, keys[CHOOSE j \in hits : \A h \in hits : j <= h])
             ELSE findInSubKeys(obj, keys, 1)

RECURSIVE transformFrom(_, _, _)

\* A loop that substitutes 'empty' only for undefined and null.
transformFromNullish(projectData, i, result) ==
    IF i > Len(projectData.v) THEN result
    ELSE LET key == projectData.v[i][1]
             looked == MONDAY_FORM_FIELD_LOOKUP(key)
             newKey == IF Truthy(looked) THEN ToPropertyKey(looked) ELSE key
             found == findNestedValue(projectData.v[i][2], PreferredKeys)
             value == IF found.t \notin {"undefined", "null"} THEN found ELSE Str("empty")
         IN  transformFrom(projectData, i + 1, Put(result, newKey, value))

\* The for..in loop of transformData, from property i on.
transformFrom(projectData, i, result) ==
    IF i > Len(projectData.v) THEN result
    ELSE LET key == projectData.v[i][1]
             looked == MONDAY_FORM_FIELD_LOOKUP(key)
             newKey == IF Truthy(looked) THEN ToPropertyKey(looked) ELSE key
             found == findNestedValue(projectData.v[i][2], PreferredKeys)
             value == IF Truthy(found) THEN found ELSE Str("empty")
         IN  transformFrom(projectData, i + 1, Put(result, newKey, value))

transformData(projectData) == transformFrom(projectData, 1, Obj(<<>>))

----------------------------------------------------------------------------
(* Identity generator *)

RECURSIVE JSONstringify(_)
RECURSIVE stringifyMembers(_, _)

\* The members of an object from property i on, comma separated, as tokens.
stringifyMembers(o, i) ==
    IF i > Len(o.v) THEN <<>>
    ELSE (IF i > 1 THEN <<",">> ELSE <<>>)
         \o <<"\"" \o o.v[i][1] \o "\"", ":">>
         \o JSONstringify(o.v[i][2])
         \o stringifyMembers(o, i + 1)

\* JSON.stringify as the sequence of the tokens of its output.  (A property
\* whose value is undefined would be omitted; transformData never stores one.)
JSONstringify(x) ==
    CASE x.t = "string"  -> <<"\"" \o x.v \o "\"">>
      [] x.t = "number"  -> <<ToString(x.v)>>
      [] x.t = "boolean" -> <<IF x.v THEN "true" ELSE "false">>
      [] x.t = "null"    -> <<"null">>
      [] x.t = "object"  -> <<"{">> \o stringifyMembers(x, 1) \o <<"}">>
      [] OTHER           -> <<>>

\* SHA-256 hex digest, idealised as collision free: the digest stands for
\* exactly the byte string that was hashed.
sha256(str) == [sha256 |-> str]

generateIdFromContent(content) == sha256(JSONstringify(content))

----------------------------------------------------------------------------
(* Identity of two payloads: the pure pipeline transformData ->
   generateIdFromContent applied to two webhook payloads *)

MaxFields == 2

RawKeys == {"text3", "status1", "orgName"}

\* Shapes a Monday.com column value takes: wrapped text, a labelled choice,
\* an unchecked box.
RawFields ==
    { Obj(<< <<"value", Str("Acme Water")>> >>),
      Obj(<< <<"label", Obj(<< <<"text", Str("Yes")>> >>)>> >>),
      Obj(<< <<"checked", Bool(FALSE)>> >>) }

DistinctKeys(o) == \A i, j \in 1..Len(o) : i # j => o[i][1] # o[j][1]

\* Every columnValues object of at most MaxFields fields over RawKeys.
Payloads ==
    { Obj(p) : p \in { q \in UNION { [1..n -> RawKeys \X RawFields] : n \in 0..MaxFields } :
                         DistinctKeys(q) } }

PairSet(o) == { o.v[i] : i \in 1..Len(o.v) }

IdInit ==
    /\ subA \in Payloads
    /\ subB \in Payloads
    /\ idA = <<>>
    /\ idB = <<>>

\* saveToDynamoDB's id for each of the two payloads.
ComputeIds ==
    /\ idA = <<>>
    /\ idA' = <<generateIdFromContent(transformData(subA))>>
    /\ idB' = <<generateIdFromContent(transformData(subB))>>
    /\ UNCHANGED <<subA, subB>>

----------------------------------------------------------------------------
(* The normalizer on its own: transformData applied to one webhook payload *)

\* Shapes a raw field takes beyond RawFields: null, primitives, objects with
\* no preferred key at any depth, preferred keys holding null or a falsy
\* value, and preferred keys at several depths and in several orders.
NestedFields ==
    { Null,
      Str("Acme Water"),
      Num(7),
      Bool(TRUE),
      Obj(<<>>),
      Obj(<< <<"label", Str("Yes")>> >>),
      Obj(<< <<"label", Obj(<< <<"index", Num(1)>> >>)>> >>),
      Obj(<< <<"value", Null>>, <<"text", Str("shown")>> >>),
      Obj(<< <<"text", Str("shown")>>, <<"value", Str("stored")>> >>),
      Obj(<< <<"checked", Bool(TRUE)>>, <<"date", Str("2024-01-31")>> >>),
      Obj(<< <<"text", Str("outer")>>, <<"nested", Obj(<< <<"value", Str("inner")>> >>)>> >>),
      Obj(<< <<"nested", Obj(<< <<"value", Str("inner")>> >>)>>, <<"text", Str("outer")>> >>),
      Obj(<< <<"first", Obj(<< <<"date", Str("2024-01-31")>> >>)>>,
             <<"second", Obj(<< <<"value", Str("later")>> >>)>> >>),
      Obj(<< <<"first", Null>>, <<"second", Obj(<< <<"countryName", Str("Kenya")>> >>)>> >>),
      Obj(<< <<"first", Obj(<< <<"label", Str("Yes")>> >>)>>,
             <<"second", Obj(<< <<"deep", Obj(<< <<"text", Str("below")>> >>)>> >>)>> >>),
      Obj(<< <<"value", Num(0)>> >>),
      Obj(<< <<"text", Str("")>>, <<"date", Str("2024-01-31")>> >>),
      Obj(<< <<"value", Obj(<< <<"project-name", Str("Clean River")>> >>)>> >>) }

\* Raw identifiers of a payload: those of RawKeys, the canonical name of one
\* of them, and a name every object inherits.
NormKeys == RawKeys \cup {"project-name", "constructor"}

\* The columnValues object of n fields with the given keys and shapes.
NestedPayload(n, keys, fields) == Obj([i \in 1..n |-> <<keys[i], fields[i]>>])

\* Sequences of n distinct raw identifiers.
NestedKeys(n) == { k \in [1..n -> NormKeys] : \A i, j \in 1..n : i # j => k[i] # k[j] }

NotNormalized == Undefined

NormIdle ==
    /\ payload = Obj(<<>>)
    /\ normalized = NotNormalized

\* Every columnValues object of at most MaxFields fields over NormKeys whose
\* fields take the shapes above.
NormInit ==
    /\ \E n \in 0..MaxFields :
          \E keys \in NestedKeys(n), fields \in [1..n -> RawFields \cup NestedFields] :
              payload = NestedPayload(n, keys, fields)
    /\ normalized = NotNormalized

\* handleCreatePulseEvent's call transformData(input.event.columnValues).
TransformData ==
    /\ normalized = NotNormalized
    /\ normalized' = transformData(payload)
    /\ UNCHANGED <<payload, wfVars, idVars, scoreVars, tierVars>>

----------------------------------------------------------------------------
(* Scoring engine: calculateScore of generate-impact-assessment.ts.  The
   scoring key (DIMENSIONS, QUESTIONS) is data the function reads; numbers
   are exact fractions n/d, NaN and Infinity are values of their own *)

Number(n, d) == [t |-> "number", n |-> n, d |-> d]
NaN == [t |-> "NaN", n |-> 0, d |-> 1]
Infinity == [t |-> "Infinity", n |-> 1, d |-> 1]

\* Math.round of the fraction n/d (d > 0): the nearest integer, halves up.
MathRound(n, d) == (2 * n + d) \div (2 * d)

\* question.responses[answer]: the points of a listed answer, the inherited
\* function for an inherited name, undefined otherwise.
responseOf(question, answer) ==
    IF answer \in DOMAIN question.responses THEN Num(question.responses[answer])
    ELSE IF answer \in ObjectPrototype THEN [t |-> "function", v |-> answer]
    ELSE Undefined

\* question.responses[projectData[question.question]] || 0
responseScore(question, data) ==
    LET found == responseOf(question, data[question.question])
    IN  IF Truthy(found) THEN found ELSE Num(0)

\* Math.round(responseScore * question.weight); a function times a number is NaN.
weightedScore(question, data) ==
    LET points == responseScore(question, data)
    IN  IF points.t = "number"
        THEN Number(MathRound(points.v * question.weight[1], question.weight[2]), 1)
        ELSE NaN

\* Math.max(...Object.values(question.responses))
maxQuestionScore(question) ==
    CHOOSE m \in {question.responses[a] : a \in DOMAIN question.responses} :
        \A a \in DOMAIN question.responses : question.responses[a] <= m

\* Math.round(maxQuestionScore * question.weight)
maxWeightedScore(question) ==
    Number(MathRound(maxQuestionScore(question) * question.weight[1], question.weight[2]), 1)

\* x + y on integers and NaN.
Plus(x, y) == IF x.t = "NaN" \/ y.t = "NaN" THEN NaN ELSE Number(x.n + y.n, 1)

\* x * k for an integer k > 0.
Times(x, k) == IF x.t = "NaN" THEN NaN ELSE Number(x.n * k, 1)

\* (x / y) * 100 on integers and NaN.
Percentage(x, y) ==
    IF x.t = "NaN" \/ y.t = "NaN" THEN NaN
    ELSE IF y.n = 0 THEN (IF x.n = 0 THEN NaN ELSE Infinity)
    ELSE Number(100 * x.n, y.n)

\* Math.round on a fraction, NaN and Infinity.
Rounded(x) == IF x.t = "number" THEN Number(MathRound(x.n, x.d), 1) ELSE x

RECURSIVE forEachQuestion(_, _, _, _)
\* QUESTIONS.forEach, from question i on; sums: the two running sums per dimension.
forEachQuestion(QUESTIONS, i, data, sums) ==
    IF i > Len(QUESTIONS) THEN sums
    ELSE LET question == QUESTIONS[i]
         IN  forEachQuestion(QUESTIONS, i + 1, data,
                [ weightedScores |->
                      [sums.weightedScores EXCEPT ![question.dimension] =
                           Plus(@, weightedScore(question, data))],
                  maxWeightedScores |->
                      [sums.maxWeightedScores EXCEPT ![question.dimension] =
                           Plus(@, maxWeightedScore(question))] ])

RECURSIVE sumOverDimensions(_, _, _)
\* The loop adding scores[dimension] * DIMENSIONS[dimension] over the dimensions in dims.
sumOverDimensions(dims, scores, DIMENSIONS) ==
    IF dims = {} THEN Number(0, 1)
    ELSE LET dimension == CHOOSE d \in dims : TRUE
         IN  Plus(Times(scores[dimension], DIMENSIONS[dimension]),
                  sumOverDimensions(dims \ {dimension}, scores, DIMENSIONS))

calculateScore(DIMENSIONS, QUESTIONS, data) ==
    LET zero == [dimension \in DOMAIN DIMENSIONS |-> Number(0, 1)]
        sums == forEachQuestion(QUESTIONS, 1, data,
                                [weightedScores |-> zero, maxWeightedScores |-> zero])
        totalWeightedScore ==
            sumOverDimensions(DOMAIN DIMENSIONS, sums.weightedScores, DIMENSIONS)
        totalMaxWeightedScore ==
            sumOverDimensions(DOMAIN DIMENSIONS, sums.maxWeightedScores, DIMENSIONS)
    IN  [ dimensionResults |->
              [dimension \in DOMAIN DIMENSIONS |->
                   Percentage(sums.weightedScores[dimension],
                              sums.maxWeightedScores[dimension])],
          totalScore |-> Rounded(Percentage(totalWeightedScore, totalMaxWeightedScore)) ]

MaxQuestions == 2     \* questions of a scoring key
MaxInvocations == 2   \* calls of calculateScore on one submission

DimensionNames == {"reach", "depth"}

\* Dimension weights, question weights (as fractions <<n, d>>) and points:
\* all positive.
DimensionWeights == {1, 2}
QuestionWeights == {<<2, 5>>, <<3, 2>>, <<2, 1>>}
Points == {1, 2}

\* What a form field can hold: a listed answer, an answer the question does
\* not list, a name every object inherits; "undefined" is the property key a
\* field the submission omits is looked up under.
Answers == {"yes", "no", "maybe", "constructor", "undefined"}

\* Question k of a key: its field is k; "yes" earns points, "no" none.
Questions(k) ==
    { [question |-> k, dimension |-> dimension, weight |-> weight,
       responses |-> [a \in {"yes", "no"} |-> IF a = "yes" THEN points ELSE 0]] :
          dimension \in DimensionNames, weight \in QuestionWeights, points \in Points }

\* What a scoring-key file can hold: at most MaxQuestions questions, each
\* bound to a dimension of the key.
ScoringKeys ==
    { [DIMENSIONS |-> [d \in DimensionNames |-> IF d = "reach" THEN w ELSE 1],
       QUESTIONS |-> qs] :
          w \in DimensionWeights,
          qs \in { q \in UNION { [1..n -> UNION {Questions(k) : k \in 1..MaxQuestions}] :
                                   n \in 1..MaxQuestions } :
                     \A k \in 1..Len(q) : q[k].question = k } }

\* The check of a scoring key at load time: every dimension has a question.
EveryDimensionHasQuestion(key) ==
    \A d \in DOMAIN key.DIMENSIONS :
        \E k \in 1..Len(key.QUESTIONS) : key.QUESTIONS[k].dimension = d

\* Scoring keys of at most MaxQuestions questions in which every question is
\* bound to a dimension of the key and every dimension has a question.
Rubrics == { key \in ScoringKeys : EveryDimensionHasQuestion(key) }

NotScored == [dimensionResults |-> <<>>, totalScore |-> NaN]

ScoreIdle ==
    /\ rubric = [DIMENSIONS |-> <<>>, QUESTIONS |-> <<>>]
    /\ loaded = "no"
    /\ answers = <<>>
    /\ score = NotScored
    /\ invocations = 0

ScoreInit ==
    /\ rubric \in ScoringKeys
    /\ loaded = "no"
    /\ answers \in [1..Len(rubric.QUESTIONS) -> Answers]
    /\ score = NotScored
    /\ invocations = 0

\* The scoring key is loaded when the process starts: a key with a dimension
\* no question is bound to is a configuration error and the process does not
\* get to score.
LoadRubric ==
    /\ loaded = "no"
    /\ loaded' = IF EveryDimensionHasQuestion(rubric) THEN "ok" ELSE "ConfigurationError"
    /\ UNCHANGED <<rubric, answers, score, invocations, wfVars, idVars, normVars, tierVars>>

\* A handler that runs although its module failed to load.
CalculateScoreUnloaded ==
    /\ loaded # "no"
    /\ invocations < MaxInvocations
    /\ score' = calculateScore(rubric.DIMENSIONS, rubric.QUESTIONS, answers)
    /\ invocations' = invocations + 1
    /\ UNCHANGED <<rubric, loaded, answers, wfVars, idVars, normVars, tierVars>>

\* calculateScore fills the form's blanks in before it scores.
CalculateScoreFillsBlanks ==
    /\ loaded = "ok"
    /\ invocations < MaxInvocations
    /\ score' = calculateScore(rubric.DIMENSIONS, rubric.QUESTIONS, answers)
    /\ answers' = [k \in DOMAIN answers |->
                      IF answers[k] = "undefined" THEN "no" ELSE answers[k]]
    /\ invocations' = invocations + 1
    /\ UNCHANGED <<rubric, loaded, wfVars, idVars, normVars, tierVars>>

\* The handler's call calculateScore(projectData), in a process whose import
\* of the scoring key succeeded.  The function writes to objects it creates
\* in the call and to nothing else.
CalculateScore ==
    /\ loaded = "ok"
    /\ invocations < MaxInvocations
    /\ score' = calculateScore(rubric.DIMENSIONS, rubric.QUESTIONS, answers)
    /\ invocations' = invocations + 1
    /\ UNCHANGED <<rubric, loaded, answers, wfVars, idVars, normVars, tierVars>>

----------------------------------------------------------------------------
(* The report: the colour generateImpactAssessmentPDF draws a dimension's
   percentage in *)

\* x > k, x >= k and x <= k for a percentage x and an integer k, as
\* JavaScript compares: every comparison with NaN is false.
Above(x, k) == x.t = "Infinity" \/ (x.t = "number" /\ x.n > k * x.d)
AtLeast(x, k) == x.t = "Infinity" \/ (x.t = "number" /\ x.n >= k * x.d)
AtMost(x, k) == x.t = "number" /\ x.n <= k * x.d

\* A report that draws 70 and more in green.
dimensionColorFromSeventy(result) ==
    IF AtLeast(result, 70) THEN "green"
    ELSE IF AtLeast(result, 30) /\ AtMost(result, 70) THEN "yellow"
    ELSE "red"

\* The if / else if / else of the loop over dimensionResults.
dimensionColor(result) ==
    IF Above(result, 70) THEN "green"
    ELSE IF AtLeast(result, 30) /\ AtMost(result, 70) THEN "yellow"
    ELSE "red"

MaxDenominator == 3   \* denominators of the percentages drawn

\* Percentages calculateScore returns: the fractions from 0 to 100, and NaN.
Percentages ==
    { x \in { Number(n, d) : n \in 0..(100 * MaxDenominator), d \in 1..MaxDenominator } :
          x.n <= 100 * x.d }
        \cup {NaN}

NotDrawn == "none"

TierIdle ==
    /\ dimensionResult = NaN
    /\ color = NotDrawn

TierInit ==
    /\ dimensionResult \in Percentages
    /\ color = NotDrawn

\* One round of the loop: the dimension's line is drawn in its colour.
DrawDimension ==
    /\ color = NotDrawn
    /\ color' = dimensionColor(dimensionResult)
    /\ UNCHANGED <<dimensionResult, wfVars, idVars, scoreVars, normVars>>

----------------------------------------------------------------------------
(* The workflow: bounds, constants and the webhook events of the model *)

MaxExec == 2          \* executions started
MaxInflight == 2      \* decision requests in flight at once
TickDays == 182       \* days one step of the clock advances

\* taskTimeout of RequestAdminDecisionState, in days.
TaskTimeoutDays == 364

NoToken == 0                  \* request without a taskToken parameter
ForgedToken == MaxExec + 1    \* a token no task was ever given

\* A submission of the Monday.com form: raw column ids, no orgName.
FormEvent ==
    [ type |-> "create_pulse", pulseName |-> "Acme Water",
      columnValues |-> Obj(<< <<"text3", Obj(<< <<"value", Str("Acme Water")>> >>)>>,
                              <<"status1", Obj(<< <<"label", Obj(<< <<"text", Str("Yes")>> >>)>> >>)>> >>) ]

\* An event whose columns are named orgName and projectData, the latter
\* wrapping an object: the shape the report step accepts as its input.
ShapedEvent ==
    [ type |-> "create_pulse", pulseName |-> "River Trust",
      columnValues |-> Obj(<< <<"orgName", Obj(<< <<"text", Str("River Trust")>> >>)>>,
                              <<"projectData",
                                Obj(<< <<"value", Obj(<< <<"project-name", Str("Clean River")>> >>)>> >>)>> >>) ]

OtherEvent == [ type |-> "update_column_value", pulseName |-> "Acme Water", columnValues |-> Obj(<<>>) ]

Events == {FormEvent, ShapedEvent, OtherEvent}

Collaborators == {"s3", "dynamodb", "sfn"}

NoResponse == [endpoint |-> "", token |-> NoToken, status |-> 0]

Init ==
    /\ execs = <<>>
    /\ table = {}
    /\ bucket = {}
    /\ mailbox = {}
    /\ inflight = EmptyBag
    /\ resp = NoResponse
    /\ subA = Obj(<<>>)
    /\ subB = Obj(<<>>)
    /\ idA = <<>>
    /\ idB = <<>>
    /\ ScoreIdle
    /\ NormIdle
    /\ TierIdle

----------------------------------------------------------------------------
(* Webhook intake: handle-entry.ts *)

RECURSIVE itemFrom(_, _, _)
\* The loop of saveToDynamoDB over Object.entries(keyValues), from entry i on.
itemFrom(keyValues, i, item) ==
    IF i > Len(keyValues.v) THEN item
    ELSE LET key == keyValues.v[i][1]
             value == keyValues.v[i][2]
         IN  itemFrom(keyValues, i + 1,
                 CASE value.t = "string"  -> Put(item, key, [t |-> "S", v |-> value.v])
                   [] value.t = "number"  -> Put(item, key, [t |-> "N", v |-> ToString(value.v)])
                   [] value.t = "boolean" -> Put(item, key, [t |-> "BOOL", v |-> value.v])
                   [] OTHER               -> item)

\* The item saveToDynamoDB writes.
saveItem(keyValues) ==
    itemFrom(keyValues, 1,
             Obj(<< <<"id", [t |-> "S", v |-> generateIdFromContent(keyValues)]>> >>))

\* PutItemCommand without a condition: an item with the same key is replaced.
PutItem(tbl, item) ==
    {it \in tbl : Get(it, "id") # Get(item, "id")} \cup {item}

rawCsvKey(pulseName) == <<pulseName, "impactAssessmentRaw.csv">>

\* StartExecutionCommand without a name: every call starts a new execution.
NewExecution(input) ==
    [ input    |-> input,
      status   |-> "RUNNING",
      state    |-> "ExecutionStarted",
      error    |-> "",
      token    |-> NoToken,
      notified |-> FALSE,
      waited   |-> 0,
      orgName  |-> "",
      projectName |-> "",
      decision |-> "",
      redeemed |-> "",
      trail    |-> <<"ExecutionStarted">> ]

StartExecution(ex, input) == Append(ex, NewExecution(input))

\* Request bodies of the webhook endpoint: event.body absent, a body that is
\* not JSON, and JSON objects with or without the properties challenge and event.
NoBody == [body |-> "absent"]
NotJson == [body |-> "not json"]
EmptyObject == [body |-> "json"]
ChallengeBody == [body |-> "json", challenge |-> "abc123"]
ChallengeWithEvent == [body |-> "json", challenge |-> "xyz789", event |-> ShapedEvent]
EventBody(event) == [body |-> "json", event |-> event]

Requests ==
    {NoBody, NotJson, EmptyObject, ChallengeBody, ChallengeWithEvent}
        \cup {EventBody(event) : event \in Events}

\* JSON.parse returns an object for the body.
Parses(request) == request.body = "json"

\* 'field' in input.
In(field, request) == field \in DOMAIN request

\* The exchange on POST /: the request and the APIGatewayProxyResult.
Answer(request, statusCode, body) ==
    [endpoint |-> "/", token |-> NoToken, status |-> statusCode,
     request |-> request, body |-> body]

\* The handler throws: API Gateway answers for the failed invocation.
Thrown(request) == Answer(request, 502, [message |-> "Internal server error"])

\* handler, body absent: throws before reading anything.
EntryNoBody(request) ==
    /\ request = NoBody
    /\ resp' = Thrown(request)
    /\ UNCHANGED <<execs, table, bucket, mailbox, inflight, pureVars>>

\* handler, JSON.parse throws on the body.
EntryNotJson(request) ==
    /\ request # NoBody
    /\ ~Parses(request)
    /\ resp' = Thrown(request)
    /\ UNCHANGED <<execs, table, bucket, mailbox, inflight, pureVars>>

\* handler, init() fails to read a parameter: throws, whatever the body asks.
EntryInitFails(request) ==
    /\ Parses(request)
    /\ resp' = Thrown(request)
    /\ UNCHANGED <<execs, table, bucket, mailbox, inflight, pureVars>>

\* handleChallengeEvent.
handleChallengeEvent(request) == Answer(request, 200, [challenge |-> request.challenge])

\* handler, body carrying a challenge.
EntryChallenge(request) ==
    /\ Parses(request)
    /\ In("challenge", request)
    /\ resp' = handleChallengeEvent(request)
    /\ UNCHANGED <<execs, table, bucket, mailbox, inflight, pureVars>>

\* handler, neither challenge nor event: input.event.type throws a TypeError.
EntryNoEvent(request) ==
    /\ Parses(request)
    /\ ~In("challenge", request)
    /\ ~In("event", request)
    /\ resp' = Thrown(request)
    /\ UNCHANGED <<execs, table, bucket, mailbox, inflight, pureVars>>

\* handler, event of another type.
EntryNotHandled(request) ==
    /\ Parses(request)
    /\ ~In("challenge", request)
    /\ In("event", request)
    /\ request.event.type # "create_pulse"
    /\ resp' = Answer(request, 400, [message |-> "Event not handled"])
    /\ UNCHANGED <<execs, table, bucket, mailbox, inflight, pureVars>>

\* handleCreatePulseEvent.  The three calls are issued together; each reaches
\* its service or fails on its own (failing: the collaborators that fail).
\* Promise.all rejects when any of them fails and the handler throws.
handleCreatePulseEvent(request, failing) ==
    LET keyValues == transformData(request.event.columnValues)
    IN  /\ bucket' = IF "s3" \in failing THEN bucket
                     ELSE bucket \cup {rawCsvKey(request.event.pulseName)}
        /\ table' = IF "dynamodb" \in failing THEN table
                    ELSE PutItem(table, saveItem(keyValues))
        /\ execs' = IF "sfn" \in failing THEN execs
                    ELSE StartExecution(execs, keyValues)
        /\ resp' = IF failing = {}
                   THEN Answer(request, 200, [message |-> "Event handled successfully"])
                   ELSE Thrown(request)
        /\ UNCHANGED <<mailbox, inflight, pureVars>>

\* A create_pulse event arrives while fewer than limit executions exist; the
\* collaborators that fail are one of the sets in modes.
EntryCreatePulse(request, limit, modes) ==
    /\ Parses(request)
    /\ ~In("challenge", request)
    /\ In("event", request)
    /\ request.event.type = "create_pulse"
    /\ Len(execs) < limit
    /\ \E failing \in modes : handleCreatePulseEvent(request, failing)

\* The requests that get as far as handleCreatePulseEvent.
Submit(limit, modes) ==
    \E request \in Requests : EntryCreatePulse(request, limit, modes)

HandleEntry(limit, modes) ==
    \E request \in Requests :
        \/ EntryNoBody(request)
        \/ EntryNotJson(request)
        \/ EntryInitFails(request)
        \/ EntryChallenge(request)
        \/ EntryNoEvent(request)
        \/ EntryNotHandled(request)
        \/ EntryCreatePulse(request, limit, modes)

----------------------------------------------------------------------------
(* The state machine supplyFunnelStateMachine and its task Lambdas *)

Running(i) == i \in 1..Len(execs) /\ execs[i].status = "RUNNING"

At(i, state) == Running(i) /\ execs[i].state = state

\* A state of the chain is entered; the execution history records it.
Enter(e, state) == [e EXCEPT !.state = state, !.trail = Append(@, state)]

\* The error is caught and the state is left to run again.
FailAndRetry(e, error) == e

\* The execution fails and the error is dropped.
FailForgetsError(e, error) == [e EXCEPT !.status = "FAILED"]

\* An error no Catch handles fails the execution in the state it is in.
Fail(e, error) == [e EXCEPT !.status = "FAILED", !.error = error]

\* The chain starts at the decision request (as the first revision of the stack did).
EnterDecisionFirst(i) ==
    /\ At(i, "ExecutionStarted")
    /\ execs' = [execs EXCEPT ![i] = [Enter(@, "RequestAdminDecisionState") EXCEPT !.token = i]]
    /\ UNCHANGED <<table, bucket, mailbox, inflight, resp, pureVars>>

\* Chain.start(generateImpactAssessmentState): the first state is entered.
EnterFirstState(i) ==
    /\ At(i, "ExecutionStarted")
    /\ execs' = [execs EXCEPT ![i] = Enter(@, "GenerateImpactAssessmentState")]
    /\ UNCHANGED <<table, bucket, mailbox, inflight, resp, pureVars>>

\* One token handed to every task.
JsonPathTaskTokenShared(i) == 1

\* sfn.JsonPath.taskToken: the token the service mints for the task of
\* execution i, different for every task.
JsonPathTaskToken(i) == i

\* projectData['project-name'].replace(/[^a-zA-Z0-9()]/g, '_') on the names of the model.
sanitize(name) ==
    CASE name = "Clean River" -> "Clean_River"
      [] name = "Acme Water"  -> "Acme_Water"
      [] OTHER                -> name

csvPath(orgName, projectName) == <<orgName, projectName \o "_rawImpactAssessment.csv">>
pdfPath(orgName, projectName) == <<orgName, projectName \o "_impactAssessmentReport.pdf">>

\* The parameter check and the project-name read of the report handler: does
\* the handler get as far as its first upload?
reportAccepts(event) ==
    /\ Truthy(Get(event, "orgName"))
    /\ Truthy(Get(event, "projectData"))
    /\ Get(Get(event, "projectData"), "project-name").t = "string"

\* GenerateImpactAssessmentState: the handler of generate-impact-assessment.ts
\* on the execution input, then the transition to RequestAdminDecisionState,
\* where the service mints the task token.  uploads: how many of the two
\* uploads succeed before one fails (2: both).
GenerateImpactAssessment(i, uploads) ==
    /\ At(i, "GenerateImpactAssessmentState")
    /\ LET event == execs[i].input
           orgName == Get(event, "orgName").v
           projectName == sanitize(Get(Get(event, "projectData"), "project-name").v)
       IN  IF ~reportAccepts(event)
           THEN /\ execs' = [execs EXCEPT ![i] = Fail(@, "Error")]
                /\ UNCHANGED bucket
           ELSE /\ bucket' = bucket
                      \cup (IF uploads >= 1 THEN {csvPath(orgName, projectName)} ELSE {})
                      \cup (IF uploads >= 2 THEN {pdfPath(orgName, projectName)} ELSE {})
                /\ execs' = [execs EXCEPT ![i] =
                      IF uploads < 2 THEN Fail(@, "Error")
                      ELSE [Enter(@, "RequestAdminDecisionState")
                                EXCEPT !.orgName = orgName,
                                       !.projectName = projectName,
                                       !.token = JsonPathTaskToken(i)]]
    /\ UNCHANGED <<table, mailbox, inflight, resp, pureVars>>

\* A mail that links the export intake uploaded under the same organisation.
linkedRawCsvKeyOfIntake(orgName, projectName) == <<orgName, "impactAssessmentRaw.csv">>

\* The object keys sendApprovalEmail signs its two download links for.
linkedRawCsvKey(orgName, projectName) == <<orgName, projectName \o "_rawImpactAssessment.csv">>
reportPdfKey(orgName, projectName) == <<orgName, projectName \o "_impactAssessmentReport.pdf">>

\* A Lambda that logs the error of its send and returns: the task keeps waiting.
RequestAdminDecisionSwallows(i, sent) ==
    /\ At(i, "RequestAdminDecisionState")
    /\ ~execs[i].notified
    /\ mailbox' = IF sent
                  THEN mailbox \cup
                          {[ taskToken |-> execs[i].token,
                             rawCsvKey |-> linkedRawCsvKey(execs[i].orgName, execs[i].projectName),
                             reportPdfKey |-> reportPdfKey(execs[i].orgName, execs[i].projectName) ]}
                  ELSE mailbox
    /\ execs' = [execs EXCEPT ![i].notified = TRUE]
    /\ UNCHANGED <<table, bucket, inflight, resp, pureVars>>

\* The Lambda of RequestAdminDecisionState (request-admin-decision.ts): it
\* mails the two links and the token, or throws, which fails the task.
RequestAdminDecision(i, sent) ==
    /\ At(i, "RequestAdminDecisionState")
    /\ ~execs[i].notified
    /\ IF sent
       THEN /\ mailbox' = mailbox \cup
                  {[ taskToken |-> execs[i].token,
                     rawCsvKey |-> linkedRawCsvKey(execs[i].orgName, execs[i].projectName),
                     reportPdfKey |-> reportPdfKey(execs[i].orgName, execs[i].projectName) ]}
            /\ execs' = [execs EXCEPT ![i].notified = TRUE]
       ELSE /\ execs' = [execs EXCEPT ![i] = Fail(@, "Error")]
            /\ UNCHANGED mailbox
    /\ UNCHANGED <<table, bucket, inflight, resp, pureVars>>

\* No taskTimeout: the task waits without limit.
ExpiredNever(e) == FALSE

\* taskTimeout of RequestAdminDecisionState has run out for the task.
Expired(e) == e.waited >= TaskTimeoutDays

\* The decision defaults to waitlist when none arrives in time.
ExpireToWaitlist(e) == Enter([e EXCEPT !.decision = "waitlist"], "WaitlistState")

\* States.Timeout, which no Catch handles, fails the execution.
Expire(e) == Fail(e, "States.Timeout")

\* Time passes for the tasks that wait; the service times a task out when its
\* taskTimeout has run.
Tick ==
    /\ \E i \in 1..Len(execs) : At(i, "RequestAdminDecisionState")
    /\ execs' = [i \in 1..Len(execs) |->
                    IF At(i, "RequestAdminDecisionState")
                    THEN LET aged == [execs[i] EXCEPT !.waited = @ + TickDays]
                         IN  IF Expired(aged) THEN Expire(aged) ELSE aged
                    ELSE execs[i]]
    /\ UNCHANGED <<table, bucket, mailbox, inflight, resp, pureVars>>

\* A Choice state whose two rules lead to the approval branch.
AdminDecisionAlwaysApproves(decision) ==
    CASE decision = "approve"  -> "ApprovalState"
      [] decision = "waitlist" -> "ApprovalState"
      [] OTHER                 -> "States.NoChoiceMatched"

\* Choice 'Admin Decision' on $.decision; no otherwise() branch.
AdminDecision(decision) ==
    CASE decision = "approve"  -> "ApprovalState"
      [] decision = "waitlist" -> "WaitlistState"
      [] OTHER                 -> "States.NoChoiceMatched"

\* A token honoured for as long as its execution runs, whatever state it is in.
TaskOpenWhileRunning(e, taskToken) ==
    /\ e.token = taskToken
    /\ e.status = "RUNNING"

\* A waiting task resumed by whatever token is presented.
TaskOpenToAnyToken(e, taskToken) ==
    /\ e.status = "RUNNING"
    /\ e.state = "RequestAdminDecisionState"

\* A token honoured for ever.
TaskOpenForEver(e, taskToken) == e.token = taskToken

\* The task a token names is open: SendTaskSuccess accepts the token.
TaskOpen(e, taskToken) ==
    /\ e.token = taskToken
    /\ e.status = "RUNNING"
    /\ e.state = "RequestAdminDecisionState"

\* The decision is recorded and the task left open.
ResumeLeavesTaskOpen(e, decision, by) ==
    [e EXCEPT !.decision = decision, !.redeemed = by]

\* SendTaskSuccess accepted for the task of e (by a request to endpoint by):
\* the task ends with the output and the Choice state routes the execution.
Resume(e, decision, by) ==
    LET next == AdminDecision(decision)
        out == [e EXCEPT !.decision = decision, !.redeemed = by, !.waited = 0]
    IN  IF next = "States.NoChoiceMatched"
        THEN Fail(out, next)
        ELSE Enter(out, next)

\* A handler that throws when it gets no taskToken: the task fails.
ApprovalStepThrows(i) ==
    /\ At(i, "ApprovalState")
    /\ execs' = [execs EXCEPT ![i] = Fail(@, "Error")]
    /\ UNCHANGED <<table, bucket, mailbox, inflight, resp, pureVars>>

\* ApprovalState: handle-approval.ts invoked by the state machine; the event
\* has no queryStringParameters, the handler returns its 400 object and the
\* task succeeds.
ApprovalStep(i) ==
    /\ At(i, "ApprovalState")
    /\ execs' = [execs EXCEPT ![i] = Enter(@, "DesignDocState")]
    /\ UNCHANGED <<table, bucket, mailbox, inflight, resp, pureVars>>

\* DesignDocState: generate-design-doc.ts returns; end of the chain.
DesignDocStep(i) ==
    /\ At(i, "DesignDocState")
    /\ execs' = [execs EXCEPT ![i].status = "SUCCEEDED"]
    /\ UNCHANGED <<table, bucket, mailbox, inflight, resp, pureVars>>

\* A task that is retried without end.
WaitlistStepRetries(i) ==
    /\ At(i, "WaitlistState")
    /\ UNCHANGED vars

\* WaitlistState: handle-waitlist.ts invoked by the state machine; end of the chain.
WaitlistStep(i) ==
    /\ At(i, "WaitlistState")
    /\ execs' = [execs EXCEPT ![i].status = "SUCCEEDED"]
    /\ UNCHANGED <<table, bucket, mailbox, inflight, resp, pureVars>>

\* Administrative cancellation of a running execution.
Cancel(i) ==
    /\ Running(i)
    /\ execs' = [execs EXCEPT ![i] = [@ EXCEPT !.status = "ABORTED", !.error = "cancelled"]]
    /\ UNCHANGED <<table, bucket, mailbox, inflight, resp, pureVars>>

----------------------------------------------------------------------------
(* Decision endpoints: handle-approval.ts on /approve, handle-waitlist.ts on
   /waitlist *)

Endpoints == {"/approve", "/waitlist"}

\* Handlers that report the decision in the past tense.
decisionOutputPastTense(endpoint) == IF endpoint = "/approve" THEN "approved" ELSE "waitlisted"

\* The output each handler puts in its SendTaskSuccessCommand.
decisionOutput(endpoint) == IF endpoint = "/approve" THEN "approve" ELSE "waitlist"

\* The catch answers like the try.
decisionStatusAlwaysOk(accepted) == 200

\* statusCode of the handler's try (the send returned) and catch (it threw).
decisionStatus(accepted) == IF accepted THEN 200 ELSE 500

\* The tokens a client can present: those mailed, and one that was never minted.
KnownTokens == {m.taskToken : m \in mailbox} \cup {ForgedToken}

\* sfnClient.send(sendTaskSuccessCommand) for request r and the handler's
\* response.  The service accepts the call for an open task, which ends with
\* the output, and rejects it otherwise.
Redeem(r) ==
    LET open == {i \in 1..Len(execs) : TaskOpen(execs[i], r.token)}
    IN  /\ execs' = [i \in 1..Len(execs) |->
                        IF i \in open
                        THEN Resume(execs[i], decisionOutput(r.endpoint), r.endpoint)
                        ELSE execs[i]]
        /\ resp' = [endpoint |-> r.endpoint, token |-> r.token,
                    status |-> decisionStatus(open # {})]

\* A handler without the taskToken check: it sends with the token it did not get.
DecisionNoTokenSends(endpoint) ==
    /\ Redeem([endpoint |-> endpoint, token |-> NoToken])
    /\ UNCHANGED <<table, bucket, mailbox, inflight, pureVars>>

\* A request without taskToken: the handler returns 400 at once.
DecisionNoToken(endpoint) ==
    /\ resp' = [endpoint |-> endpoint, token |-> NoToken, status |-> 400]
    /\ UNCHANGED <<execs, table, bucket, mailbox, inflight, pureVars>>

\* One request with a taskToken, from arrival to response.  The handler
\* touches shared state once, in its send.
DecisionRequest(endpoint, taskToken) ==
    /\ Redeem([endpoint |-> endpoint, token |-> taskToken])
    /\ UNCHANGED <<table, bucket, mailbox, inflight, pureVars>>

HandleDecision ==
    \/ \E endpoint \in Endpoints : DecisionNoToken(endpoint)
    \/ \E endpoint \in Endpoints, taskToken \in KnownTokens : DecisionRequest(endpoint, taskToken)

Workflow ==
    \E i \in 1..Len(execs) :
        \/ EnterFirstState(i)
        \/ \E uploads \in 0..2 : GenerateImpactAssessment(i, uploads)
        \/ \E sent \in BOOLEAN : RequestAdminDecision(i, sent)
        \/ ApprovalStep(i)
        \/ DesignDocStep(i)
        \/ WaitlistStep(i)
        \/ Cancel(i)

\* In Spec the three collaborators of intake work or fail together.
Together == {{}, Collaborators}

Next ==
    \/ Submit(MaxExec, Together)
    \/ Workflow
    \/ Tick
    \/ HandleDecision

Spec == Init /\ [][Next]_vars

----------------------------------------------------------------------------
(* Concurrent decision requests: the handlers run as separate invocations,
   each between its arrival and its send *)

RaceExec == 1         \* executions started in SpecRace

\* A request with a taskToken arrives; the handler builds its command.
DecisionReceive(endpoint, taskToken) ==
    /\ BagCardinality(inflight) < MaxInflight
    /\ inflight' = inflight (+) SetToBag({[endpoint |-> endpoint, token |-> taskToken]})
    /\ UNCHANGED <<execs, table, bucket, mailbox, resp, pureVars>>

\* The send of a request in flight, and its response.
DecisionSend(r) ==
    /\ BagIn(r, inflight)
    /\ inflight' = inflight (-) SetToBag({r})
    /\ Redeem(r)
    /\ UNCHANGED <<table, bucket, mailbox, pureVars>>

\* The handler processes are lost together with what they hold in memory,
\* and so is every execution that waits.
RestartLosesWaiting ==
    /\ inflight # EmptyBag
    /\ inflight' = EmptyBag
    /\ \E r \in BagToSet(inflight) :
          resp' = [endpoint |-> r.endpoint, token |-> r.token, status |-> 502]
    /\ execs' = [i \in 1..Len(execs) |->
                    IF At(i, "RequestAdminDecisionState")
                    THEN Fail(execs[i], "States.TaskFailed")
                    ELSE execs[i]]
    /\ UNCHANGED <<table, bucket, mailbox, pureVars>>

\* The handler processes restart.  A handler holds nothing between
\* invocations, and within one only its request and the command built from
\* it: the requests in flight are lost, their callers get a gateway error.
Restart ==
    /\ inflight # EmptyBag
    /\ inflight' = EmptyBag
    /\ \E r \in BagToSet(inflight) :
          resp' = [endpoint |-> r.endpoint, token |-> r.token, status |-> 502]
    /\ UNCHANGED <<execs, table, bucket, mailbox, pureVars>>

RaceDecision ==
    \/ \E endpoint \in Endpoints : DecisionNoToken(endpoint)
    \/ \E endpoint \in Endpoints, taskToken \in KnownTokens : DecisionReceive(endpoint, taskToken)
    \/ \E r \in BagToSet(inflight) : DecisionSend(r)

NextRace ==
    \/ Submit(RaceExec, Together)
    \/ Workflow
    \/ Tick
    \/ RaceDecision
    \/ Restart

SpecRace == Init /\ [][NextRace]_vars

----------------------------------------------------------------------------
(* The workflow under the scheduling of the Step Functions service: a state
   that has been entered runs its task, and a task that returns is followed
   by the next state of the chain *)

NextLive ==
    \/ Submit(RaceExec, Together)
    \/ Workflow
    \/ Tick
    \/ HandleDecision

SpecLive ==
    /\ Init
    /\ [][NextLive]_vars
    /\ \A i \in 1..MaxExec :
          /\ WF_vars(ApprovalStep(i))
          /\ WF_vars(DesignDocStep(i))
          /\ WF_vars(WaitlistStep(i))

----------------------------------------------------------------------------
(* The webhook endpoint on its own: every request body, every combination of
   failing collaborators *)

NextIntake == HandleEntry(MaxExec, SUBSET Collaborators)

SpecIntake == Init /\ [][NextIntake]_vars

----------------------------------------------------------------------------
(* The identity pipeline on its own *)

InitId ==
    /\ execs = <<>>
    /\ table = {}
    /\ bucket = {}
    /\ mailbox = {}
    /\ inflight = EmptyBag
    /\ resp = NoResponse
    /\ IdInit
    /\ ScoreIdle
    /\ NormIdle
    /\ TierIdle

NextId == ComputeIds /\ UNCHANGED <<wfVars, scoreVars, normVars, tierVars>>

SpecId == InitId /\ [][NextId]_vars

----------------------------------------------------------------------------
(* The scoring engine on its own *)

InitScore ==
    /\ execs = <<>>
    /\ table = {}
    /\ bucket = {}
    /\ mailbox = {}
    /\ inflight = EmptyBag
    /\ resp = NoResponse
    /\ subA = Obj(<<>>)
    /\ subB = Obj(<<>>)
    /\ idA = <<>>
    /\ idB = <<>>
    /\ ScoreInit
    /\ NormIdle
    /\ TierIdle

NextScore == LoadRubric \/ CalculateScore

SpecScore == InitScore /\ [][NextScore]_vars

----------------------------------------------------------------------------
(* The normalizer on its own *)

InitNorm ==
    /\ execs = <<>>
    /\ table = {}
    /\ bucket = {}
    /\ mailbox = {}
    /\ inflight = EmptyBag
    /\ resp = NoResponse
    /\ subA = Obj(<<>>)
    /\ subB = Obj(<<>>)
    /\ idA = <<>>
    /\ idB = <<>>
    /\ ScoreIdle
    /\ NormInit
    /\ TierIdle

NextNorm == TransformData

SpecNorm == InitNorm /\ [][NextNorm]_vars

----------------------------------------------------------------------------
(* The report's colours on their own *)

InitTier ==
    /\ execs = <<>>
    /\ table = {}
    /\ bucket = {}
    /\ mailbox = {}
    /\ inflight = EmptyBag
    /\ resp = NoResponse
    /\ subA = Obj(<<>>)
    /\ subB = Obj(<<>>)
    /\ idA = <<>>
    /\ idB = <<>>
    /\ ScoreIdle
    /\ NormIdle
    /\ TierInit

NextTier == DrawDimension

SpecTier == InitTier /\ [][NextTier]_vars

----------------------------------------------------------------------------
(* Properties *)

(* C1: once a redemption of an instance's token has been accepted, every
   later request that presents the token on /approve or /waitlist is answered
   with an error status, and the instance's decision stays the one the first
   redemption gave. *)
TokenSingleUse ==
    [][\A i \in 1..Len(execs) :
          execs[i].redeemed # "" =>
             /\ execs'[i].redeemed = execs[i].redeemed
             /\ execs'[i].decision = decisionOutput(execs[i].redeemed)
             /\ \A endpoint \in Endpoints :
                   DecisionRequest(endpoint, execs[i].token) => resp'.status >= 400]_vars

\* Scenario D: approve accepted, then /waitlist with the same token answered 500.
TokenSingleUseWitness ==
    \E i \in 1..Len(execs) :
        /\ execs[i].redeemed = "/approve"
        /\ execs[i].decision = "approve"
        /\ resp = [endpoint |-> "/waitlist", token |-> execs[i].token, status |-> 500]

Entered(e) == {e.trail[k] : k \in 1..Len(e.trail)}

(* C2: of any number of requests in flight for one token (an /approve racing
   a /waitlist, or replays), at most one is accepted: a request answered 200
   found the instance waiting and undecided and took it out of
   RequestAdminDecisionState, a decided instance never waits again nor changes
   its decision, and no instance enters both the approval and the waitlist
   branch. *)
RaceAtMostOnce ==
    [][/\ \A r \in BagToSet(inflight) :
             (DecisionSend(r) /\ resp'.status = 200) =>
                \E i \in 1..Len(execs) :
                    /\ execs[i].token = r.token
                    /\ At(i, "RequestAdminDecisionState")
                    /\ execs[i].redeemed = ""
                    /\ execs'[i].redeemed = r.endpoint
                    /\ execs'[i].decision = decisionOutput(r.endpoint)
                    /\ execs'[i].state # "RequestAdminDecisionState"
       /\ \A i \in 1..Len(execs) :
             execs[i].redeemed # "" =>
                /\ execs'[i].redeemed = execs[i].redeemed
                /\ execs'[i].decision = execs[i].decision
                /\ execs'[i].state # "RequestAdminDecisionState"
       /\ \A i \in 1..Len(execs') :
             ~({"ApprovalState", "WaitlistState"} \subseteq Entered(execs'[i]))]_vars

\* /approve has won while a /waitlist and a replayed /approve for the same
\* token are still in flight.
RaceWitness ==
    \E i \in 1..Len(execs) :
        /\ execs[i].redeemed = "/approve"
        /\ resp = [endpoint |-> "/approve", token |-> execs[i].token, status |-> 200]
        /\ BagIn([endpoint |-> "/waitlist", token |-> execs[i].token], inflight)
        /\ BagIn([endpoint |-> "/approve", token |-> execs[i].token], inflight)

(* C3: two intakes whose normalized field content is identical create exactly
   one workflow instance: no two executions are started from submissions of
   the same identity. *)
OneInstancePerSubmission ==
    \A i, j \in 1..Len(execs) :
        generateIdFromContent(execs[i].input) = generateIdFromContent(execs[j].input)
            => i = j

(* C4: the identity of a normalized submission depends only on its set of
   (field name, value) pairs: two payloads whose normalized fields and values
   are the same, in whatever key order, get the same identity. *)
IdentityIgnoresKeyOrder ==
    (idA # <<>> /\ PairSet(transformData(subA)) = PairSet(transformData(subB)))
        => idA = idB

(* C5: an instance is in the approval branch (resp. the waitlist branch) only
   if a request to /approve (resp. /waitlist) with its own token was accepted
   before, and the only step that takes an instance from
   RequestAdminDecisionState into a branch is such a request answered 200:
   no passing of time, intake event or workflow step does. *)
BranchOnlyByRedemption ==
    [][\A i \in 1..Len(execs') :
          LET e == execs'[i]
          IN  /\ e.state \in {"ApprovalState", "DesignDocState"} =>
                    e.redeemed = "/approve" /\ e.decision = "approve"
              /\ e.state = "WaitlistState" =>
                    e.redeemed = "/waitlist" /\ e.decision = "waitlist"
              /\ (/\ i <= Len(execs)
                  /\ At(i, "RequestAdminDecisionState")
                  /\ e.state \in {"ApprovalState", "WaitlistState"}) =>
                    /\ DecisionRequest(e.redeemed, e.token)
                    /\ resp' = [endpoint |-> e.redeemed, token |-> e.token, status |-> 200]]_vars

\* One instance waitlisted by its reviewer while another, never decided, has
\* timed out.
BranchOnlyByRedemptionWitness ==
    \E i, j \in 1..Len(execs) :
        /\ execs[i].state = "WaitlistState"
        /\ execs[i].redeemed = "/waitlist"
        /\ execs[j].error = "States.Timeout"
        /\ execs[j].decision = ""

(* C6: no instance waits for its decision for the maximum pending lifetime
   (taskTimeout) or longer: one whose wait has lasted that long is failed, in
   RequestAdminDecisionState, with the timeout as its error and no decision;
   afterwards every request presenting its token is answered with an error
   and the instance stays as it failed. *)
DecisionTimeout ==
    [][\A i \in 1..Len(execs') :
          LET e == execs'[i]
          IN  /\ e.waited >= TaskTimeoutDays =>
                    /\ e.status = "FAILED"
                    /\ e.error = "States.Timeout"
                    /\ e.state = "RequestAdminDecisionState"
                    /\ e.decision = ""
              /\ (i <= Len(execs) /\ execs[i].error = "States.Timeout") =>
                    /\ e = execs[i]
                    /\ \A endpoint \in Endpoints :
                          DecisionRequest(endpoint, e.token) => resp'.status >= 400]_vars

\* A notified instance has timed out and a later /approve with its token was
\* answered 500.
DecisionTimeoutWitness ==
    \E i \in 1..Len(execs) :
        /\ execs[i].error = "States.Timeout"
        /\ execs[i].notified
        /\ resp = [endpoint |-> "/approve", token |-> execs[i].token, status |-> 500]

(* C7: an administrative cancellation is possible in every non-terminal state
   and leaves the instance failed; after it the instance never changes again,
   and every request presenting the token that was outstanding is answered
   with an error. *)
CancelInvalidatesToken ==
    [][\A i \in 1..Len(execs) :
          /\ Running(i) => ENABLED Cancel(i)
          /\ Cancel(i) => execs'[i].status = "ABORTED"
          /\ execs[i].status = "ABORTED" =>
                /\ execs'[i] = execs[i]
                /\ \A endpoint \in Endpoints :
                      DecisionRequest(endpoint, execs[i].token) => resp'.status >= 400]_vars

\* An instance cancelled while its mailed token was outstanding, and a later
\* /approve with that token answered 500.
CancelInvalidatesTokenWitness ==
    \E i \in 1..Len(execs) :
        /\ execs[i].status = "ABORTED"
        /\ execs[i].state = "RequestAdminDecisionState"
        /\ execs[i].notified
        /\ execs[i].decision = ""
        /\ resp = [endpoint |-> "/approve", token |-> execs[i].token, status |-> 500]

\* The workflow state of the design that a state of the chain stands for.
StateName(state) ==
    CASE state = "ExecutionStarted"              -> "Started"
      [] state = "GenerateImpactAssessmentState" -> "AwaitingReport"
      [] state = "RequestAdminDecisionState"     -> "AwaitingDecision"
      [] state = "WaitlistState"                 -> "Waitlisting"
      [] OTHER                                   -> "Approving"

RECURSIVE Collapse(_)
\* A sequence without its immediate repetitions.
Collapse(h) ==
    IF Len(h) <= 1 THEN h
    ELSE IF h[1] = h[2] THEN Collapse(Tail(h))
         ELSE <<h[1]>> \o Collapse(Tail(h))

\* The design-level state history of an execution.
History(e) ==
    Collapse([k \in 1..Len(e.trail) |-> StateName(e.trail[k])])
       \o (CASE e.status = "RUNNING"   -> <<>>
             [] e.status = "SUCCEEDED" -> <<"Completed">>
             [] OTHER                  -> <<"Failed">>)

Lifecycles ==
    { <<"Started", "AwaitingReport", "AwaitingDecision", "Approving", "Completed">>,
      <<"Started", "AwaitingReport", "AwaitingDecision", "Waitlisting", "Completed">> }

IsPrefix(h, p) == Len(h) <= Len(p) /\ \A k \in 1..Len(h) : h[k] = p[k]

(* C8: the state history of every instance is a prefix of Started,
   AwaitingReport, AwaitingDecision, Approving or Waitlisting, Completed, or
   such a prefix that stops before Completed followed by Failed; and a
   reviewer has been mailed a token only for an instance whose report step
   ran and wrote both artifacts. *)
LifecycleOrder ==
    /\ \A i \in 1..Len(execs) :
          LET h == History(execs[i])
          IN  \E p \in Lifecycles :
                 \/ IsPrefix(h, p)
                 \/ /\ Len(h) >= 2
                    /\ h[Len(h)] = "Failed"
                    /\ h[Len(h) - 1] # "Completed"
                    /\ IsPrefix(SubSeq(h, 1, Len(h) - 1), p)
    /\ \A m \in mailbox :
          /\ \E i \in 1..Len(execs) :
                /\ execs[i].token = m.taskToken
                /\ "GenerateImpactAssessmentState" \in Entered(execs[i])
          /\ m.rawCsvKey \in bucket
          /\ m.reportPdfKey \in bucket

\* One instance has run the whole approval path while another failed in its
\* report step.
LifecycleOrderWitness ==
    \E i, j \in 1..Len(execs) :
        /\ History(execs[i]) =
              <<"Started", "AwaitingReport", "AwaitingDecision", "Approving", "Completed">>
        /\ History(execs[j]) = <<"Started", "AwaitingReport", "Failed">>

RECURSIVE After(_, _)
\* What follows the first occurrence of state in a trail.
After(trail, state) ==
    IF trail = <<>> THEN <<>>
    ELSE IF Head(trail) = state THEN Tail(trail)
         ELSE After(Tail(trail), state)

\* The states an execution has entered since its decision task.
Branch(e) == After(e.trail, "RequestAdminDecisionState")

(* C9: an instance whose token was redeemed takes exactly one branch, the one
   its decision names: with decision approve it runs the approval step, then
   the design-document step, and never the waitlist step; with decision
   waitlist it runs the waitlist step alone. An instance nobody redeemed has
   entered neither branch. *)
BranchByDecision ==
    \A i \in 1..Len(execs) :
        LET e == execs[i]
        IN  /\ e.redeemed = "" => Branch(e) = <<>>
            /\ e.redeemed # "" =>
                  /\ e.decision \in {"approve", "waitlist"}
                  /\ e.decision = "approve" =>
                        /\ Branch(e) \in {<<"ApprovalState">>, <<"ApprovalState", "DesignDocState">>}
                        /\ e.status = "SUCCEEDED" =>
                              Branch(e) = <<"ApprovalState", "DesignDocState">>
                  /\ e.decision = "waitlist" => Branch(e) = <<"WaitlistState">>

\* Two finished instances, one approved through the design-document step and
\* one waitlisted.
BranchByDecisionWitness ==
    \E i, j \in 1..Len(execs) :
        /\ execs[i].status = "SUCCEEDED"
        /\ execs[i].redeemed = "/approve"
        /\ Branch(execs[i]) = <<"ApprovalState", "DesignDocState">>
        /\ execs[j].status = "SUCCEEDED"
        /\ execs[j].redeemed = "/waitlist"
        /\ Branch(execs[j]) = <<"WaitlistState">>

(* C10: once an execution has succeeded, no step changes it (its state, its
   decision, its input and everything else recorded of it stay as they are),
   no execution disappears, and no stored submission is lost or altered. *)
CompletedImmutable ==
    [][/\ Len(execs') >= Len(execs)
       /\ \A i \in 1..Len(execs) :
             execs[i].status = "SUCCEEDED" =>
                /\ execs'[i] = execs[i]
                /\ table \subseteq table']_vars

\* A finished instance whose old token has just been refused, while the same
\* submission, taken in again, started a second execution.
CompletedImmutableWitness ==
    \E i, j \in 1..Len(execs) :
        /\ i < j
        /\ execs[i].status = "SUCCEEDED"
        /\ execs[j].input = execs[i].input
        /\ execs[j].state = "ExecutionStarted"
        /\ resp = [endpoint |-> "/waitlist", token |-> execs[i].token, status |-> 500]

\* The tokens SendTaskSuccess would accept in a state of the executions.
Redeemable(ex) ==
    {t \in 1..ForgedToken : \E i \in 1..Len(ex) : TaskOpen(ex[i], t)}

(* C11: a step that answers a request to /approve or /waitlist carrying no
   token answers 400, changes no execution, and leaves every token that was
   redeemable before it redeemable after it. *)
NoTokenRejected ==
    [][(\/ \E endpoint \in Endpoints : DecisionNoToken(endpoint)
        \/ resp' # resp /\ resp'.endpoint \in Endpoints /\ resp'.token = NoToken) =>
          /\ resp'.status = 400
          /\ execs' = execs
          /\ Redeemable(execs') = Redeemable(execs)]_vars

\* /approve without a token was answered 400 while a mailed token is outstanding.
NoTokenRejectedWitness ==
    /\ resp = [endpoint |-> "/approve", token |-> NoToken, status |-> 400]
    /\ \E i \in 1..Len(execs) :
          /\ execs[i].notified
          /\ execs[i].token \in Redeemable(execs)

\* The executions that wait for a decision under token t.
AwaitingDecision(ex, t) ==
    {i \in 1..Len(ex) : /\ ex[i].token = t
                        /\ ex[i].status = "RUNNING"
                        /\ ex[i].state = "RequestAdminDecisionState"}

(* C12: a request to a decision endpoint with a token is answered 200 exactly
   when the token named an execution waiting for its decision, and then that
   execution, and no other, leaves the wait with the decision of the
   endpoint; when the token names no waiting execution (forged, timed out,
   already redeemed) the answer is an error status and no execution
   changes. *)
SuccessIffTransition ==
    [][\A endpoint \in Endpoints, t \in 1..ForgedToken :
          DecisionRequest(endpoint, t) =>
             LET named == AwaitingDecision(execs, t)
             IN  /\ resp'.status = 200 <=> named # {}
                 /\ resp'.status # 200 => resp'.status >= 400
                 /\ \A i \in 1..Len(execs) :
                       IF i \in named
                       THEN /\ execs'[i].decision = decisionOutput(endpoint)
                            /\ execs'[i].state \in {"ApprovalState", "WaitlistState"}
                       ELSE execs'[i] = execs[i]]_vars

\* One token was accepted on /approve, and a forged token was then refused on
\* /waitlist while another execution waited for its decision.
SuccessIffTransitionWitness ==
    \E i, j \in 1..Len(execs) :
        /\ execs[i].redeemed = "/approve"
        /\ execs[i].state = "ApprovalState"
        /\ AwaitingDecision(execs, execs[j].token) = {j}
        /\ execs[j].notified
        /\ resp = [endpoint |-> "/waitlist", token |-> ForgedToken, status |-> 500]

(* C13: every intake request whose body carries a challenge is answered 200
   with a body that echoes the challenge, and the step starts no execution,
   writes no item and uploads no object. *)
ChallengeEchoed ==
    [][(resp'.endpoint = "/" /\ In("challenge", resp'.request)) =>
          /\ resp'.status = 200
          /\ resp'.body = [challenge |-> resp'.request.challenge]
          /\ execs' = execs
          /\ table' = table
          /\ bucket' = bucket]_vars

\* The request bodies of the claim: no body, a body that does not parse, no
\* event object, an event of a type other than create_pulse.
Unrecognized(request) ==
    \/ ~Parses(request)
    \/ /\ ~In("challenge", request)
       /\ (In("event", request) => request.event.type # "create_pulse")

(* C14: every intake request that is malformed or of an unrecognized shape
   is answered with a status from 400 to 499, and the step starts no
   execution, writes no item and uploads no object. *)
MalformedRejected ==
    [][(resp'.endpoint = "/" /\ Unrecognized(resp'.request)) =>
          /\ resp'.status \in 400..499
          /\ execs' = execs
          /\ table' = table
          /\ bucket' = bucket]_vars

\* The two artifacts the report step writes for an input it accepts.
Artifacts(event) ==
    LET orgName == Get(event, "orgName").v
        projectName == sanitize(Get(Get(event, "projectData"), "project-name").v)
    IN  {csvPath(orgName, projectName), pdfPath(orgName, projectName)}

\* The execution failed in its report step.
ReportFailed(e) == e.status = "FAILED" /\ e.state = "GenerateImpactAssessmentState"

(* C15: when the report step runs on an input it rejects, or ends with one
   of its two artifacts not in the bucket, the execution fails in that step
   with no token and no mail sent; and an execution that failed in its report
   step stays exactly as it is, with no token and no mail for it: the step is
   not run again. *)
ReportFailureFails ==
    [][\A i \in 1..Len(execs) :
          /\ ( /\ \E uploads \in 0..2 : GenerateImpactAssessment(i, uploads)
               /\ \/ ~reportAccepts(execs[i].input)
                  \/ ~(Artifacts(execs[i].input) \subseteq bucket') ) =>
                /\ ReportFailed(execs'[i])
                /\ execs'[i].token = NoToken
                /\ mailbox' = mailbox
          /\ ReportFailed(execs[i]) =>
                /\ execs'[i] = execs[i]
                /\ execs[i].token = NoToken
                /\ ~execs[i].notified
                /\ Len(SelectSeq(execs[i].trail,
                                 LAMBDA st : st = "GenerateImpactAssessmentState")) = 1]_vars

\* One execution failed on an input without orgName, another after its CSV
\* was uploaded and before its PDF was.
ReportFailureFailsWitness ==
    \E i, j \in 1..Len(execs) :
        /\ ReportFailed(execs[i])
        /\ ~reportAccepts(execs[i].input)
        /\ ReportFailed(execs[j])
        /\ reportAccepts(execs[j].input)
        /\ Cardinality(Artifacts(execs[j].input) \cap bucket) = 1

\* The execution failed in its decision request before any mail was sent.
NotifyFailed(e) ==
    /\ e.status = "FAILED"
    /\ e.state = "RequestAdminDecisionState"
    /\ ~e.notified

(* C16: when the Lambda of the decision request fails to send its mail, the
   execution fails in that state, nothing is mailed and its token is no
   longer redeemable; it does not stay suspended.  An execution that failed
   this way stays as it is, and no mail carries its token. *)
NotifyFailureFails ==
    [][\A i \in 1..Len(execs) :
          /\ RequestAdminDecision(i, FALSE) =>
                /\ NotifyFailed(execs'[i])
                /\ mailbox' = mailbox
                /\ execs'[i].token \notin Redeemable(execs')
          /\ NotifyFailed(execs[i]) =>
                /\ execs'[i] = execs[i]
                /\ \A m \in mailbox : m.taskToken # execs[i].token]_vars

\* One execution failed when its mail could not be sent, while another was
\* mailed and waits.
NotifyFailureFailsWitness ==
    \E i, j \in 1..Len(execs) :
        /\ NotifyFailed(execs[i])
        /\ execs[i].error = "Error"
        /\ execs[i].waited = 0
        /\ At(j, "RequestAdminDecisionState")
        /\ execs[j].notified

\* The last thing the decision endpoints answered was the gateway error of a
\* restart.
Restarted == resp.endpoint \in Endpoints /\ resp.status = 502

(* C17: a restart of the handler processes changes no execution, item,
   object or mail, so every execution that waited for its decision still
   waits under the same token; and after a restart, the first request that
   presents the token of a waiting execution is accepted and resumes it. *)
RestartLosesNothing ==
    [][/\ Restart =>
             /\ execs' = execs
             /\ <<table', bucket', mailbox'>> = <<table, bucket, mailbox>>
             /\ \A t \in 1..ForgedToken : AwaitingDecision(execs', t) = AwaitingDecision(execs, t)
             /\ Redeemable(execs') = Redeemable(execs)
       /\ \A r \in BagToSet(inflight) :
             (Restarted /\ DecisionSend(r) /\ AwaitingDecision(execs, r.token) # {}) =>
                /\ resp'.status = 200
                /\ \A i \in AwaitingDecision(execs, r.token) :
                      /\ execs'[i].decision = decisionOutput(r.endpoint)
                      /\ execs'[i].state \in {"ApprovalState", "WaitlistState"}]_vars

\* After a restart that lost a request, the token of the waiting execution
\* is presented again.
RestartLosesNothingWitness ==
    /\ Restarted
    /\ \E i \in 1..Len(execs) :
          /\ execs[i].notified
          /\ AwaitingDecision(execs, execs[i].token) = {i}
          /\ BagIn([endpoint |-> "/approve", token |-> execs[i].token], inflight)

\* What the design records of an instance: its state, decision and
\* submission, and whether its token is redeemable.
Instance(ex, i) ==
    [ status     |-> ex[i].status,
      state      |-> ex[i].state,
      decision   |-> ex[i].decision,
      submission |-> ex[i].input,
      token      |-> ex[i].token,
      redeemable |-> TaskOpen(ex[i], ex[i].token) ]

(* C18: a step changes at most one instance, except that the clock may time
   out several tasks at once, each because its own wait reached the
   timeout; and a decision request changes only an instance whose token is
   the one presented, giving it the decision of the endpoint. *)
InstancesIndependent ==
    [][LET changed == {i \in 1..Len(execs) : Instance(execs', i) # Instance(execs, i)}
       IN  /\ Len(execs') >= Len(execs)
           /\ \/ Cardinality(changed) <= 1
              \/ \A i \in changed :
                    /\ At(i, "RequestAdminDecisionState")
                    /\ execs[i].waited + TickDays >= TaskTimeoutDays
                    /\ execs'[i] = Fail([execs[i] EXCEPT !.waited = @ + TickDays], "States.Timeout")
           /\ \A endpoint \in Endpoints, t \in 1..ForgedToken :
                 DecisionRequest(endpoint, t) =>
                    /\ Cardinality(changed) <= 1
                    /\ \A i \in changed :
                          /\ execs[i].token = t
                          /\ execs'[i].decision = decisionOutput(endpoint)
                          /\ execs'[i].input = execs[i].input]_vars

\* Both instances were waiting; one has just been approved by its token, the
\* other still waits and its token is still redeemable.
InstancesIndependentWitness ==
    \E i, j \in 1..Len(execs) :
        /\ i # j
        /\ execs[i].redeemed = "/approve"
        /\ resp = [endpoint |-> "/approve", token |-> execs[i].token, status |-> 200]
        /\ execs[j].notified
        /\ Instance(execs, j).redeemable
        /\ execs[j].decision = ""

\* The executions a token was minted for.
Named(t) == {i \in 1..Len(execs) : execs[i].token = t}

(* C19: no two executions have the same token; a token that is redeemable,
   and every token that was mailed, was minted for exactly one execution; a
   token is redeemable exactly while that execution waits in
   RequestAdminDecisionState, not before it got there and not after it left;
   a token nobody minted is not redeemable. *)
TokenNamesOneWaiting ==
    /\ \A i, j \in 1..Len(execs) :
          (i # j /\ execs[i].token # NoToken) => execs[i].token # execs[j].token
    /\ \A m \in mailbox : Cardinality(Named(m.taskToken)) = 1
    /\ \A t \in Redeemable(execs) :
          /\ Cardinality(Named(t)) = 1
          /\ \A i \in Named(t) : At(i, "RequestAdminDecisionState")
    /\ \A i \in 1..Len(execs) :
          /\ ("RequestAdminDecisionState" \notin Entered(execs[i])) => execs[i].token = NoToken
          /\ At(i, "RequestAdminDecisionState") => execs[i].token \in Redeemable(execs)
    /\ NoToken \notin Redeemable(execs)
    /\ ForgedToken \notin Redeemable(execs)

\* One execution waits under a redeemable token; another has left the wait
\* and its token, mailed earlier, is no longer redeemable.
TokenNamesOneWaitingWitness ==
    \E i, j \in 1..Len(execs) :
        /\ At(i, "RequestAdminDecisionState")
        /\ execs[i].token \in Redeemable(execs)
        /\ execs[j].state = "DesignDocState"
        /\ execs[j].token \in {m.taskToken : m \in mailbox} \ Redeemable(execs)

\* A number from 0 to 100.
InRange(x) == x.t = "number" /\ 0 <= x.n /\ x.n <= 100 * x.d

(* C20: for every scoring key with positive weights and every set of
   answers, each dimension percentage and the total that calculateScore
   returns is a number from 0 to 100. *)
ScoresInRange ==
    score # NotScored =>
        /\ \A dimension \in DOMAIN score.dimensionResults :
              InRange(score.dimensionResults[dimension])
        /\ InRange(score.totalScore)

\* The number 100.
Hundred(x) == x.t = "number" /\ x.n = 100 * x.d

\* Every question of the key is answered with its choice of most points.
AllAtMaximum ==
    \A k \in 1..Len(rubric.QUESTIONS) :
        /\ answers[k] \in DOMAIN rubric.QUESTIONS[k].responses
        /\ rubric.QUESTIONS[k].responses[answers[k]] = maxQuestionScore(rubric.QUESTIONS[k])

(* C21: when every question of the scoring key is answered with a choice of
   the most points the question gives, calculateScore returns 100 for every
   dimension and 100 as the total. *)
AllMaximumGivesHundred ==
    (score # NotScored /\ AllAtMaximum) =>
        /\ \A dimension \in DOMAIN score.dimensionResults :
              Hundred(score.dimensionResults[dimension])
        /\ Hundred(score.totalScore)

\* The answer to question k is none of the question's scored choices.
Unscored(k) == answers[k] \notin DOMAIN rubric.QUESTIONS[k].responses

\* The submission with every unscored answer replaced by the question's
\* scored choice of zero points.
ScoredAsZero == [k \in DOMAIN answers |-> IF Unscored(k) THEN "no" ELSE answers[k]]

(* C22: a question answered outside its scored choices, or not answered,
   raises no error and counts as a scored answer of zero points does: it adds
   0 to its dimension's weighted sum and its full maximum to the dimension's
   maximum, and the other questions are scored as they are otherwise. *)
UnscoredCountsAsZero ==
    (score # NotScored /\ \E k \in DOMAIN answers : Unscored(k)) =>
        score = calculateScore(rubric.DIMENSIONS, rubric.QUESTIONS, ScoredAsZero)

(* C23: calculateScore is a function of the submission and the scoring key:
   a call changes neither of them nor the outcome of the key's load, and a
   second call on the same inputs returns what the first returned. *)
ScoringIsPure ==
    [][ invocations' # invocations =>
            /\ rubric' = rubric
            /\ answers' = answers
            /\ loaded' = loaded
            /\ (invocations >= 1 => score' = score) ]_vars

ScoringIsPureWitness ==
    /\ invocations >= 2
    /\ \E k \in DOMAIN answers : answers[k] = "undefined"
    /\ score.totalScore.t = "number"

(* C24: a scoring key with a dimension no question is bound to is rejected
   as a configuration error when it is loaded, and calculateScore never runs
   with such a key: no percentage is the quotient by the zero maximum of a
   dimension without questions. *)
NoScoringWithoutQuestions ==
    /\ (loaded # "no" /\ ~EveryDimensionHasQuestion(rubric)) => loaded = "ConfigurationError"
    /\ loaded = "ConfigurationError" => (score = NotScored /\ invocations = 0)
    /\ score # NotScored => EveryDimensionHasQuestion(rubric)

NoScoringWithoutQuestionsWitness ==
    /\ loaded = "ConfigurationError"
    /\ \E d \in DOMAIN rubric.DIMENSIONS :
          \A k \in 1..Len(rubric.QUESTIONS) : rubric.QUESTIONS[k].dimension # d

RECURSIVE HoldsPreferredKey(_)
\* x is an object with a preferred key of its own or in an object below it.
HoldsPreferredKey(x) ==
    /\ x.t = "object"
    /\ \E i \in 1..Len(x.v) :
          \/ \E j \in 1..Len(PreferredKeys) : x.v[i][1] = PreferredKeys[j]
          \/ HoldsPreferredKey(x.v[i][2])

\* The name raw field i of the payload is stored under.
NewKey(i) ==
    LET looked == MONDAY_FORM_FIELD_LOOKUP(payload.v[i][1])
    IN  IF Truthy(looked) THEN ToPropertyKey(looked) ELSE payload.v[i][1]

\* No later raw field of the payload is stored under the name of field i.
LastUnder(i) == \A j \in (i + 1)..Len(payload.v) : NewKey(j) # NewKey(i)

(* C25: transformData returns for every payload: the result has a value
   under the name of each raw field; a field that is null, a primitive, an
   empty object or an object with no preferred key at any depth gets 'empty';
   and every field gets the value it gets when it is the payload's only field
   (of the fields stored under one name, the last). *)
MalformedFieldIsEmpty ==
    normalized # NotNormalized =>
        /\ normalized.t = "object"
        /\ \A i \in 1..Len(payload.v) :
              /\ HasKey(normalized, NewKey(i))
              /\ LastUnder(i) =>
                    /\ ~HoldsPreferredKey(payload.v[i][2])
                          => Get(normalized, NewKey(i)) = Str("empty")
                    /\ Get(normalized, NewKey(i))
                          = transformData(Obj(<<payload.v[i]>>)).v[1][2]

MalformedFieldIsEmptyWitness ==
    /\ normalized # NotNormalized
    /\ Len(payload.v) = 2
    /\ Len(normalized.v) = 2
    /\ payload.v[1][2] \in {Null, Num(7), Obj(<<>>)}
    /\ normalized.v[1][2] = Str("empty")
    /\ normalized.v[2][2] = Str("Acme Water")

RECURSIVE DepthFirst(_)
\* The value a depth-first walk of x yields: at an object, the value of its
\* first present key in the order of PreferredKeys; failing that, what the
\* first of its properties, in their order, that yields a value yields.
DepthFirst(x) ==
    IF x.t # "object" THEN Undefined
    ELSE LET present == {j \in 1..Len(PreferredKeys) : HasKey(x, PreferredKeys[j])}
             yielding == {i \in 1..Len(x.v) : DepthFirst(x.v[i][2]) # Undefined}
         IN  IF present # {}
             THEN Get(x, PreferredKeys[CHOOSE j \in present : \A h \in present : j <= h])
             ELSE IF yielding # {}
             THEN DepthFirst(x.v[CHOOSE i \in yielding : \A h \in yielding : i <= h][2])
             ELSE Undefined

(* C30: the value transformData stores for a raw field is the one a
   depth-first walk of the field yields, which at each object takes the first
   present key in the order value, text, date, countryName, checked before it
   descends, and descends into the properties in their order ('empty' when
   the walk yields nothing or a falsy value). *)
ExtractedDepthFirst ==
    normalized # NotNormalized =>
        \A i \in 1..Len(payload.v) :
            LET found == DepthFirst(payload.v[i][2])
            IN  LastUnder(i) =>
                    Get(normalized, NewKey(i)) = IF Truthy(found) THEN found ELSE Str("empty")

\* A key of the enclosing object wins over a better-ranked key below it, a
\* better-ranked key over an earlier one, the first yielding property over a later.
ExtractedDepthFirstWitness ==
    /\ normalized # NotNormalized
    /\ Len(payload.v) = 2
    /\ Len(normalized.v) = 2
    /\ payload.v[1][2] = Obj(<< <<"nested", Obj(<< <<"value", Str("inner")>> >>)>>,
                                <<"text", Str("outer")>> >>)
    /\ normalized.v[1][2] = Str("outer")
    /\ payload.v[2][2] = Obj(<< <<"first", Obj(<< <<"date", Str("2024-01-31")>> >>)>>,
                                <<"second", Obj(<< <<"value", Str("later")>> >>)>> >>)
    /\ normalized.v[2][2] = Str("2024-01-31")

RECURSIVE SumOf(_, _)
\* The sum of f[k] over the k in S.
SumOf(f, S) ==
    IF S = {} THEN 0
    ELSE LET k == CHOOSE x \in S : TRUE
         IN  f[k] + SumOf(f, S \ {k})

\* The questions bound to dimension d.
QuestionsOf(d) == {k \in 1..Len(rubric.QUESTIONS) : rubric.QUESTIONS[k].dimension = d}

\* The points of the answer to question k: those of the scored choice, 0 otherwise.
pointsOf(k) ==
    IF Unscored(k) THEN 0 ELSE rubric.QUESTIONS[k].responses[answers[k]]

\* The most points a choice of question k gives.
bestPointsOf(k) ==
    LET given == {rubric.QUESTIONS[k].responses[a] : a \in DOMAIN rubric.QUESTIONS[k].responses}
    IN  CHOOSE best \in given : \A p \in given : p <= best

weightedSum(d) ==
    SumOf([k \in QuestionsOf(d) |->
              MathRound(pointsOf(k) * rubric.QUESTIONS[k].weight[1], rubric.QUESTIONS[k].weight[2])],
          QuestionsOf(d))

maxWeightedSum(d) ==
    SumOf([k \in QuestionsOf(d) |->
              MathRound(bestPointsOf(k) * rubric.QUESTIONS[k].weight[1], rubric.QUESTIONS[k].weight[2])],
          QuestionsOf(d))

\* Every question weight of the key is an integer.
IntegerWeights == \A k \in 1..Len(rubric.QUESTIONS) : rubric.QUESTIONS[k].weight[2] = 1

(* C29: for a scoring key of integer weights and points, the total that
   calculateScore returns is round(100 * S / M), S the sum over the dimensions
   of weightedSum(d) * dimensionWeight(d) and M that of maxWeightedSum(d) *
   dimensionWeight(d), and each dimension percentage is 100 * weightedSum(d) /
   maxWeightedSum(d). *)
TotalIsWeightedRatio ==
    (score # NotScored /\ IntegerWeights) =>
        LET dims == DOMAIN rubric.DIMENSIONS
            S == SumOf([d \in dims |-> weightedSum(d) * rubric.DIMENSIONS[d]], dims)
            M == SumOf([d \in dims |-> maxWeightedSum(d) * rubric.DIMENSIONS[d]], dims)
        IN  /\ \A d \in dims :
                  /\ score.dimensionResults[d].t = "number"
                  /\ score.dimensionResults[d].n * maxWeightedSum(d)
                        = 100 * weightedSum(d) * score.dimensionResults[d].d
            /\ score.totalScore = Number(MathRound(100 * S, M), 1)

\* The execution has ended without success.
Failed(e) == e.status \in {"FAILED", "ABORTED"}

(* C26: no step removes a workflow instance or replaces it by another; an
   instance that fails keeps the state it failed in and records the reason,
   and a failed instance is never changed again. *)
InstancesRetained ==
    [][ /\ Len(execs') >= Len(execs)
        /\ \A i \in 1..Len(execs) :
              /\ execs'[i].input = execs[i].input
              /\ Failed(execs[i]) => execs'[i] = execs[i]
              /\ (Failed(execs'[i]) /\ ~Failed(execs[i])) =>
                    /\ execs'[i].state = execs[i].state
                    /\ execs'[i].trail = execs[i].trail
                    /\ execs'[i].error # "" ]_vars

InstancesRetainedWitness ==
    /\ Len(execs) = 2
    /\ execs[1].status = "FAILED"
    /\ execs[1].state = "GenerateImpactAssessmentState"
    /\ execs[1].error = "Error"
    /\ execs[2].status = "SUCCEEDED"

(* C27: the input intake hands to the workflow is one the report step
   accepts: no instance fails in the report step over its input, so that with
   working collaborators every instance intake starts comes to wait for a
   decision. *)
IntakeInputAccepted ==
    \A i \in 1..Len(execs) :
        (execs[i].status = "FAILED" /\ execs[i].state = "GenerateImpactAssessmentState")
            => reportAccepts(execs[i].input)

(* C28: under the service's scheduling, an instance whose token has been
   redeemed ends, succeeded or failed; it does not stay in the approval or
   waitlist branch for ever and is never again at the decision request. *)
RedeemedTerminates ==
    /\ \A i \in 1..MaxExec :
          (i <= Len(execs) /\ execs[i].redeemed # "")
              ~> (i <= Len(execs) /\ execs[i].status # "RUNNING")
    /\ [][ \A i \in 1..Len(execs) :
              execs[i].redeemed # "" => execs'[i].state # "RequestAdminDecisionState" ]_vars

RedeemedTerminatesWitness ==
    \E i \in 1..Len(execs) :
        /\ execs[i].redeemed = "/approve"
        /\ execs[i].status = "SUCCEEDED"
        /\ execs[i].trail[Len(execs[i].trail)] = "DesignDocState"

\* The canonical name of a raw identifier: its entry in the lookup table when
\* the table has one, the identifier itself otherwise.
CanonicalName(key) ==
    LET looked == MONDAY_FORM_FIELD_LOOKUP(key)
    IN  IF key \notin ObjectPrototype /\ looked.t = "string" THEN looked.v ELSE key

(* C31: the normalized mapping has one entry for each raw field, in the
   payload's order, under the field's canonical name: the name the lookup
   table gives for the raw identifier, or the identifier itself when the table
   has none. *)
OneEntryPerRawField ==
    normalized # NotNormalized =>
        /\ Len(normalized.v) = Len(payload.v)
        /\ \A i \in 1..Len(payload.v) :
              HasKey(normalized, CanonicalName(payload.v[i][1]))

\* JavaScript string, number or boolean.
Scalar(x) == x.t \in {"string", "number", "boolean"}

(* C32: every value of the normalized mapping is a scalar, never an object,
   and every normalized field is an attribute of the item written to the
   store. *)
NormalizedValuesScalar ==
    normalized # NotNormalized =>
        \A k \in 1..Len(normalized.v) :
            /\ Scalar(normalized.v[k][2])
            /\ HasKey(saveItem(normalized), normalized.v[k][1])

(* C36: no value of the normalized mapping is falsy: a field whose extracted
   value is false, 0, the empty string or null is stored as 'empty'. *)
NoFalsyValue ==
    normalized # NotNormalized =>
        /\ \A k \in 1..Len(normalized.v) : Truthy(normalized.v[k][2])
        /\ \A i \in 1..Len(payload.v) :
              LET found == DepthFirst(payload.v[i][2])
              IN  (LastUnder(i) /\ found # Undefined /\ ~Truthy(found))
                      => Get(normalized, NewKey(i)) = Str("empty")

NoFalsyValueWitness ==
    /\ normalized # NotNormalized
    /\ Len(payload.v) = 2
    /\ Len(normalized.v) = 2
    /\ payload.v[1][2] = Obj(<< <<"checked", Bool(FALSE)>> >>)
    /\ payload.v[2][2] = Obj(<< <<"value", Num(0)>> >>)
    /\ normalized.v[1][2] = Str("empty")
    /\ normalized.v[2][2] = Str("empty")

(* C33: the report draws every dimension percentage from 0 to 100 in exactly
   one colour: green when it is above 70, yellow when it is from 30 to 70
   inclusive, red when it is below 30. *)
OneTierPerPercentage ==
    (color # NotDrawn /\ InRange(dimensionResult)) =>
        /\ color \in {"green", "yellow", "red"}
        /\ color = "green" <=> dimensionResult.n > 70 * dimensionResult.d
        /\ color = "yellow" <=> /\ dimensionResult.n >= 30 * dimensionResult.d
                                 /\ dimensionResult.n <= 70 * dimensionResult.d
        /\ color = "red" <=> dimensionResult.n < 30 * dimensionResult.d

OneTierPerPercentageWitness ==
    /\ color = "yellow"
    /\ dimensionResult = Number(70, 1)

\* The table holds the record of the submission an execution was started for.
RecordStored(tbl, e) ==
    \E it \in tbl : Get(it, "id").v = generateIdFromContent(e.input)

(* C34: intake is all-or-nothing over its three concurrent side effects: a
   create_pulse request that starts an execution does not end in an error, and
   every execution that exists has its submission record in the table. *)
IntakeAllOrNothing ==
    [][ /\ Len(execs') > Len(execs) => resp'.status \notin 500..599
        /\ \A i \in 1..Len(execs') : RecordStored(table', execs'[i]) ]_vars

\* The execution went through the given state.
Passed(e, state) == \E k \in 1..Len(e.trail) : e.trail[k] = state

(* C35: the decision a resumed instance carries is 'approve' when its token
   was redeemed at /approve and 'waitlist' when it was redeemed at /waitlist,
   and no other value ever; the Choice state then has a matching rule, so the
   instance enters the branch of that endpoint and never fails with
   States.NoChoiceMatched. *)
DecisionFromEndpoint ==
    \A i \in 1..Len(execs) :
        /\ execs[i].decision \in {"", "approve", "waitlist"}
        /\ execs[i].redeemed = "" => execs[i].decision = ""
        /\ execs[i].redeemed = "/approve" =>
              execs[i].decision = "approve" /\ Passed(execs[i], "ApprovalState")
        /\ execs[i].redeemed = "/waitlist" =>
              execs[i].decision = "waitlist" /\ Passed(execs[i], "WaitlistState")
        /\ execs[i].error # "States.NoChoiceMatched"

DecisionFromEndpointWitness ==
    \E i, j \in 1..Len(execs) :
        /\ execs[i].redeemed = "/waitlist"
        /\ execs[i].decision = "waitlist"
        /\ execs[i].state = "WaitlistState"
        /\ execs[j].redeemed = "/approve"
        /\ execs[j].decision = "approve"
        /\ execs[j].state = "ApprovalState"

(* C37: the two locations linked in a reviewer notification are the ones
   the report step wrote for the instance the notification's token belongs
   to, built from that instance's orgName and sanitized project name, and
   both are in the bucket; every notified instance has such a notification. *)
NotificationLinksWritten ==
    /\ \A m \in mailbox :
          \E i \in 1..Len(execs) :
              /\ execs[i].token = m.taskToken
              /\ Passed(execs[i], "RequestAdminDecisionState")
              /\ reportAccepts(execs[i].input)
              /\ {m.rawCsvKey, m.reportPdfKey} = Artifacts(execs[i].input)
              /\ m.rawCsvKey = csvPath(Get(execs[i].input, "orgName").v, execs[i].projectName)
              /\ m.reportPdfKey = pdfPath(Get(execs[i].input, "orgName").v, execs[i].projectName)
              /\ m.rawCsvKey \in bucket
              /\ m.reportPdfKey \in bucket
    /\ \A i \in 1..Len(execs) :
          execs[i].notified => \E m \in mailbox : m.taskToken = execs[i].token

NotificationLinksWrittenWitness ==
    \E m \in mailbox :
        \E i \in 1..Len(execs) :
            /\ At(i, "RequestAdminDecisionState")
            /\ execs[i].token = m.taskToken
            /\ m.rawCsvKey = <<"River Trust", "Clean_River_rawImpactAssessment.csv">>
            /\ m.reportPdfKey = <<"River Trust", "Clean_River_impactAssessmentReport.pdf">>
            /\ {m.rawCsvKey, m.reportPdfKey} \subseteq bucket

\* Between two states, execution i keeps its decision and token, no other
\* execution changes, and no response, mail or request in flight appears.
StepKeepsDecisions(i) ==
    /\ Len(execs') = Len(execs)
    /\ execs'[i].decision = execs[i].decision
    /\ execs'[i].redeemed = execs[i].redeemed
    /\ execs'[i].token = execs[i].token
    /\ execs'[i].error = ""
    /\ \A j \in 1..Len(execs) : j # i => execs'[j] = execs[j]
    /\ resp' = resp
    /\ mailbox' = mailbox
    /\ inflight' = inflight

(* C38: the approval or waitlist step the state machine runs after a
   decision redeems no token, changes no instance's decision and does not
   raise: the instance goes on from ApprovalState to DesignDocState, and from
   WaitlistState to its end, unless it is cancelled. *)
BranchStepInert ==
    [][ \A i \in 1..Len(execs) :
          /\ (At(i, "ApprovalState") /\ execs'[i] # execs[i] /\ execs'[i].status # "ABORTED") =>
                /\ execs'[i].status = "RUNNING"
                /\ execs'[i].state = "DesignDocState"
                /\ StepKeepsDecisions(i)
          /\ (At(i, "WaitlistState") /\ execs'[i] # execs[i] /\ execs'[i].status # "ABORTED") =>
                /\ execs'[i].status = "SUCCEEDED"
                /\ execs'[i].state = "WaitlistState"
                /\ StepKeepsDecisions(i) ]_vars

BranchStepInertWitness ==
    \E i, j \in 1..Len(execs) :
        /\ At(i, "DesignDocState")
        /\ execs[i].decision = "approve"
        /\ execs[i].token # NoToken
        /\ execs[j].status = "SUCCEEDED"
        /\ execs[j].state = "WaitlistState"
        /\ execs[j].decision = "waitlist"

====
